---- MODULE Spec2Model ----
(***************************************************************************)
(* Model of ptau::read (src/src/ptau.rs): the decoder of a "Powers of Tau" *)
(* file into G1 and G2 affine points.                                      *)
(*                                                                         *)
(* The file is a sequence of bytes.  Multi-byte integers are kept as       *)
(* little-endian byte words (u32: 4 bytes, i64/u64/usize: 8 bytes) and the *)
(* arithmetic the code does on them is done on the words, so that 64-bit   *)
(* wrap-around, sign and overflow are exact.                               *)
(*                                                                         *)
(* The field elements of ark_bn254 are kept as the library keeps them:     *)
(* four u64 limbs holding the Montgomery form of the value modulo the      *)
(* BN254 base-field modulus.  The library's arithmetic on them is done on  *)
(* the bytes of the limbs.                                                 *)
(***************************************************************************)
EXTENDS Integers, Sequences, FiniteSets, TLC

\* ------------------------------------------------------------------------
\* Bounds of the model
\* ------------------------------------------------------------------------

\* largest requested point count tried against files that hold records
MaxReq == 2

\* ------------------------------------------------------------------------
\* Byte words
\* ------------------------------------------------------------------------

Min(a, b) == IF a < b THEN a ELSE b

Zeros(n) == [k \in 1..n |-> 0]

\* the number n >= 0 as a little-endian word of w bytes
WordOfNat(n, w) ==
  [k \in 1..w |-> IF k = 1 THEN n % 256
                  ELSE IF k = 2 THEN (n \div 256) % 256
                  ELSE IF k = 3 THEN (n \div 65536) % 256
                  ELSE IF k = 4 THEN (n \div 16777216) % 256
                  ELSE 0]

\* a word whose value is below 2^24
Fits(b) == \A k \in 4..Len(b) : b[k] = 0

\* the value of a word that Fits
NatOfWord(b) ==
  (IF Len(b) >= 1 THEN b[1] ELSE 0)
  + (IF Len(b) >= 2 THEN 256 * b[2] ELSE 0)
  + (IF Len(b) >= 3 THEN 65536 * b[3] ELSE 0)

\* a + b modulo 256^Len(a), for words of equal length
AddWord(a, b) ==
  LET c[i \in 0..Len(a)] ==
        IF i = 0 THEN 0 ELSE (a[i] + b[i] + c[i - 1]) \div 256
  IN  [i \in 1..Len(a) |-> (a[i] + b[i] + c[i - 1]) % 256]

\* unsigned a > b, for words of equal length
RECURSIVE GtFrom(_, _, _)
GtFrom(a, b, i) ==
  IF i = 0 THEN FALSE
  ELSE IF a[i] # b[i] THEN a[i] > b[i]
  ELSE GtFrom(a, b, i - 1)

GtWord(a, b) == GtFrom(a, b, Len(a))

\* the sign bit of a two's complement word
IsNeg(b) == b[Len(b)] >= 128

U32(n) == WordOfNat(n, 4)
U64(n) == WordOfNat(n, 8)

I64Max == <<255, 255, 255, 255, 255, 255, 255, 127>>

\* ------------------------------------------------------------------------
\* The file handle: a byte sequence f and a stream position p (u64 word)
\* ------------------------------------------------------------------------

\* bytes a read of n bytes at position p gets before the end of the file
Avail(f, p, n) ==
  IF Fits(p) /\ NatOfWord(p) < Len(f)
  THEN Min(n, Len(f) - NatOfWord(p))
  ELSE 0

\* Read::read_exact into a zero-initialised buffer of n bytes: the bytes
\* before the end of file are stored and consumed; ok is FALSE on a short read
ReadExact(f, p, n) ==
  LET a == Avail(f, p, n)
  IN  [buf |-> [k \in 1..n |-> IF k <= a THEN f[NatOfWord(p) + k] ELSE 0],
       pos |-> AddWord(p, U64(a)),
       ok  |-> a = n]

\* Seek::seek(SeekFrom::Current(size)): fails, leaving the position, when the
\* target is negative, overflows i64 or exceeds the file system's maximum
SeekCurrent(p, size, maxsz) ==
  LET r == AddWord(p, size)
  IN  IF IsNeg(r) \/ GtWord(r, maxsz)
      THEN [pos |-> p, ok |-> FALSE]
      ELSE [pos |-> r, ok |-> TRUE]

\* Seek::seek(SeekFrom::Start(off))
SeekStart(p, off, maxsz) ==
  IF IsNeg(off) \/ GtWord(off, maxsz)
  THEN [pos |-> p, ok |-> FALSE]
  ELSE [pos |-> off, ok |-> TRUE]

\* ------------------------------------------------------------------------
\* std::str::from_utf8
\* ------------------------------------------------------------------------

IsCont(b, i) == i <= Len(b) /\ b[i] \in 128..191

RECURSIVE Utf8From(_, _)
Utf8From(b, i) ==
  IF i > Len(b) THEN TRUE
  ELSE LET c == b[i] IN
    IF c < 128 THEN Utf8From(b, i + 1)
    ELSE IF c \in 194..223
      THEN IsCont(b, i + 1) /\ Utf8From(b, i + 2)
    ELSE IF c = 224
      THEN i + 1 <= Len(b) /\ b[i + 1] \in 160..191 /\ IsCont(b, i + 2)
           /\ Utf8From(b, i + 3)
    ELSE IF c \in 225..236 \/ c \in 238..239
      THEN IsCont(b, i + 1) /\ IsCont(b, i + 2) /\ Utf8From(b, i + 3)
    ELSE IF c = 237
      THEN i + 1 <= Len(b) /\ b[i + 1] \in 128..159 /\ IsCont(b, i + 2)
           /\ Utf8From(b, i + 3)
    ELSE IF c = 240
      THEN i + 1 <= Len(b) /\ b[i + 1] \in 144..191 /\ IsCont(b, i + 2)
           /\ IsCont(b, i + 3) /\ Utf8From(b, i + 4)
    ELSE IF c \in 241..243
      THEN IsCont(b, i + 1) /\ IsCont(b, i + 2) /\ IsCont(b, i + 3)
           /\ Utf8From(b, i + 4)
    ELSE IF c = 244
      THEN i + 1 <= Len(b) /\ b[i + 1] \in 128..143 /\ IsCont(b, i + 2)
           /\ IsCont(b, i + 3) /\ Utf8From(b, i + 4)
    ELSE FALSE

Utf8Valid(b) == Utf8From(b, 1)

\* the bytes of "ptau"
MagicString == <<112, 116, 97, 117>>

\* ------------------------------------------------------------------------
\* Multi-precision integers: little-endian byte sequences
\* ------------------------------------------------------------------------

\* F applied to the value of v
Let(v, F(_)) == CHOOSE y \in {F(x) : x \in {v}} : TRUE

\* a function on 1..n as a sequence
AsSeq(f) == f \o <<>>

At(c, k) == IF k >= 1 /\ k <= Len(c) THEN c[k] ELSE 0

\* carry propagation (adc / mac_with_carry): the n low bytes of the integer
\* cols[1] + 256 * cols[2] + 256^2 * cols[3] + ..., for columns below 2^24.
\* Each column is split over three positions, which leaves columns of at most
\* 257; a position then receives a carry when a lower position holds 256 or
\* more and every position in between holds 255.
Normalize(cols, n) ==
  Let(AsSeq([k \in 1..n |-> (At(cols, k) % 256)
                            + ((At(cols, k - 1) \div 256) % 256)
                            + (At(cols, k - 2) \div 65536)]), LAMBDA p1 :
  Let(AsSeq([k \in 1..n |-> (p1[k] % 256) + (At(p1, k - 1) \div 256)]),
      LAMBDA p2 :
    AsSeq([k \in 1..n |->
      (p2[k] + (IF \E j \in 1..(k - 1) :
                     /\ p2[j] >= 256
                     /\ \A i \in (j + 1)..(k - 1) : p2[i] = 255
                THEN 1 ELSE 0)) % 256])))

\* column k of the product of the integer a and the 8-byte limb l
LimbCol(a, l, k) ==
  (At(a, k) * l[1]) + (At(a, k - 1) * l[2]) + (At(a, k - 2) * l[3])
  + (At(a, k - 3) * l[4]) + (At(a, k - 4) * l[5]) + (At(a, k - 5) * l[6])
  + (At(a, k - 6) * l[7]) + (At(a, k - 7) * l[8])

\* BigInteger256::add_nocarry and sub_noborrow: modulo 2^256
AddNoCarry(a, b) == Normalize(AsSeq([k \in 1..Len(a) |-> a[k] + b[k]]), Len(a))
SubNoBorrow(a, b) ==
  Normalize(AsSeq([k \in 1..Len(a) |->
                     a[k] + 255 - b[k] + (IF k = 1 THEN 1 ELSE 0)]), Len(a))

\* the integer w times the small factor m, as a word of the same width
MulSmall(w, m) == Normalize(AsSeq([k \in 1..Len(w) |-> w[k] * m]), Len(w))

\* ------------------------------------------------------------------------
\* ark_bn254::Fq (ark_ff Fp256): an element is its four u64 limbs, which hold
\* the Montgomery form a * 2^256 mod q of the value a
\* ------------------------------------------------------------------------

\* FqParameters::MODULUS, the base-field modulus q of BN254
Modulus ==
  <<71, 253, 124, 216, 22, 140, 32, 60, 141, 202, 113, 104, 145, 106, 129, 151,
    93, 88, 129, 129, 182, 69, 80, 184, 41, 160, 49, 225, 114, 78, 100, 48>>

\* FqParameters::INV = -q^(-1) mod 2^64
Inv == <<137, 99, 134, 228, 130, 7, 210, 135>>

\* FqParameters::R2 = 2^512 mod q
R2 ==
  <<137, 250, 138, 83, 91, 252, 44, 243, 251, 1, 69, 212, 17, 25, 231, 181,
    246, 127, 65, 10, 255, 30, 171, 71, 31, 53, 184, 202, 113, 159, 216, 6>>

\* BigInteger256::read: four little-endian u64 limbs
BigInteger256Read(buf) == [k \in 1..4 |-> SubSeq(buf, 8 * k - 7, 8 * k)]

\* Fq::new: the limbs are taken as they are, without reduction or conversion
FqNew(bigint) == bigint

\* the 32 bytes of the limbs of an element
Repr(e) == e[1] \o e[2] \o e[3] \o e[4]

\* limb i of a 32-byte integer
Limb(b, i) == SubSeq(b, 8 * i - 7, 8 * i)

\* Fp256::reduce: one subtraction of the modulus when is_valid fails
Reduce(a) == IF GtWord(Modulus, a) THEN a ELSE SubNoBorrow(a, Modulus)

\* one round of the Montgomery multiplication: (r + a * l + k * q) / 2^64,
\* k = ((r + a * l) mod 2^64) * INV mod 2^64, kept to n bytes
MontStep(r, a, l, n) ==
  Let(AsSeq([k \in 1..(n + 8) |-> At(r, k) + LimbCol(a, l, k)]), LAMBDA s :
  Let(Normalize(s, 8), LAMBDA low :
  Let(Normalize(AsSeq([k \in 1..8 |-> LimbCol(low, Inv, k)]), 8), LAMBDA kk :
  Let(AsSeq([k \in 1..(n + 8) |-> s[k] + LimbCol(Modulus, kk, k)]),
      LAMBDA t :
    SubSeq(Normalize(t, n + 8), 9, n + 8)))))

\* the four rounds over the limbs of b and the final reduce
MontSteps(a, b, n) ==
  Let(MontStep(Zeros(n), a, Limb(b, 1), n), LAMBDA r1 :
  Let(MontStep(r1, a, Limb(b, 2), n), LAMBDA r2 :
  Let(MontStep(r2, a, Limb(b, 3), n), LAMBDA r3 :
  Let(MontStep(r3, a, Limb(b, 4), n), LAMBDA r4 :
    Reduce(SubSeq(r4, 1, 32))))))

\* Fp256::mul_assign: the rounds keep four limbs (the top limb of a round is
\* carry1 + carry2 in u64; it is exact whenever a is the output of reduce,
\* which is the case for every multiplication of read)
FqMul(a, b) == MontSteps(a, b, 32)

\* Fp256::square_in_place: the 512-bit square, the Montgomery rounds on
\* eight limbs, the upper four limbs kept
FqSquare(a) == MontSteps(a, a, 33)

\* Fp256::add_assign, sub_assign, neg, double_in_place
FqAdd(a, b) == Let(AddNoCarry(a, b), LAMBDA s : Reduce(s))
FqSub(a, b) ==
  IF GtWord(b, a) THEN Let(AddNoCarry(a, Modulus), LAMBDA s : SubNoBorrow(s, b))
  ELSE SubNoBorrow(a, b)
FqNeg(a) == IF a = Zeros(32) THEN a ELSE SubNoBorrow(Modulus, a)
FqDouble(a) == Let(AddNoCarry(a, a), LAMBDA s : Reduce(s))

\* Fp256::from_repr of an integer below the modulus: into Montgomery form
FqFromRepr(r) == IF r = Zeros(32) THEN r ELSE FqMul(r, R2)

\* Fq::from(n) for an unsigned integer n
FqFrom(n) == FqFromRepr(WordOfNat(n, 32))

\* the element 256 by which from_be_bytes_mod_order shifts
WindowSize == FqFrom(256)

\* the loop of from_be_bytes_mod_order over the bytes hi, hi - 1, ..., lo of
\* b: res = res * 256 + byte (the range is halved to bound the nesting)
RECURSIVE UpdateBytes(_, _, _, _)
UpdateBytes(res, b, lo, hi) ==
  IF lo > hi THEN res
  ELSE IF lo = hi
    THEN Let(FqMul(res, WindowSize), LAMBDA m :
         Let(FqFrom(b[lo]), LAMBDA e : FqAdd(m, e)))
  ELSE Let(UpdateBytes(res, b, ((lo + hi) \div 2) + 1, hi), LAMBDA r :
         UpdateBytes(r, b, lo, (lo + hi) \div 2))

\* Fq::from_le_bytes_mod_order: the 31 most significant bytes (all of them
\* when there are fewer) are converted directly, the others are folded in
\* one by one
from_le_bytes_mod_order(b) ==
  Let(Min(31, Len(b)), LAMBDA d :
  Let(FqFromRepr(AsSeq([k \in 1..32 |->
                          IF k <= d THEN b[Len(b) - d + k] ELSE 0])),
      LAMBDA res :
    UpdateBytes(res, b, 1, Len(b) - d)))

\* ------------------------------------------------------------------------
\* ark_bn254::Fq2 = Fq[u] / (u^2 + 1) and the curves
\* ------------------------------------------------------------------------

Fq2New(c0, c1) == <<c0, c1>>

\* QuadExtField::square_in_place for the non-residue -1
Fq2Square(a) ==
  Let(FqSub(a[1], a[2]), LAMBDA v0 :
  Let(FqDouble(a[2]), LAMBDA d :
  Let(FqAdd(v0, d), LAMBDA s :
  Let(FqMul(s, v0), LAMBDA c0 :
  Let(FqMul(d, a[1]), LAMBDA c1 : <<c0, c1>>)))))

\* QuadExtField::mul_assign (Karatsuba)
Fq2Mul(a, b) ==
  Let(FqMul(a[1], b[1]), LAMBDA v0 :
  Let(FqMul(a[2], b[2]), LAMBDA v1 :
  Let(FqAdd(a[2], a[1]), LAMBDA sa :
  Let(FqAdd(b[1], b[2]), LAMBDA sb :
  Let(FqMul(sa, sb), LAMBDA m :
  Let(FqSub(m, v0), LAMBDA m1 :
  Let(FqSub(m1, v1), LAMBDA c1 :
  Let(FqNeg(v1), LAMBDA nv1 :
  Let(FqAdd(v0, nv1), LAMBDA c0 : <<c0, c1>>)))))))))

Fq2Add(a, b) ==
  Let(FqAdd(a[1], b[1]), LAMBDA c0 :
  Let(FqAdd(a[2], b[2]), LAMBDA c1 : <<c0, c1>>))

\* g1::Parameters::COEFF_B = 3
CoeffB == FqFrom(3)

\* g2::Parameters::COEFF_B = 3 / (9 + u)
TwistB ==
  << FqFromRepr(
       <<229, 56, 161, 36, 220, 230, 103, 50, 163, 239, 219, 89, 229, 197,
         180, 181, 195, 106, 224, 27, 153, 24, 190, 129, 174, 170, 184, 206,
         64, 157, 20, 43>>),
     FqFromRepr(
       <<210, 21, 195, 133, 6, 189, 162, 228, 82, 24, 45, 229, 132, 160, 79,
         167, 244, 253, 216, 238, 173, 175, 44, 205, 212, 254, 240, 58, 176,
         19, 151, 0>>) >>

G1AffineNew(x, y, inf) == [x |-> x, y |-> y, infinity |-> inf]
G2AffineNew(x, y, inf) == [x |-> x, y |-> y, infinity |-> inf]

\* GroupAffine::is_on_curve for G1: y^2 == (x^2 * x + a * x) + b with a = 0,
\* compared limb by limb
G1IsOnCurve(p) ==
  IF p.infinity THEN TRUE
  ELSE Let(Repr(p.x), LAMBDA x :
       Let(Repr(p.y), LAMBDA y :
       Let(FqSquare(y), LAMBDA y2 :
       Let(FqSquare(x), LAMBDA x2 :
       Let(FqMul(x2, x), LAMBDA x3 :
       Let(FqAdd(x3, Zeros(32)), LAMBDA x3a :
         y2 = FqAdd(x3a, CoeffB)))))))

\* GroupAffine::is_on_curve for G2, over Fq2
G2IsOnCurve(p) ==
  IF p.infinity THEN TRUE
  ELSE Let(<<Repr(p.x[1]), Repr(p.x[2])>>, LAMBDA x :
       Let(<<Repr(p.y[1]), Repr(p.y[2])>>, LAMBDA y :
       Let(Fq2Square(y), LAMBDA y2 :
       Let(Fq2Square(x), LAMBDA x2 :
       Let(Fq2Mul(x2, x), LAMBDA x3 :
       Let(Fq2Add(x3, <<Zeros(32), Zeros(32)>>), LAMBDA x3a :
         y2 = Fq2Add(x3a, TwistB)))))))

\* one G1 record (64 bytes) and one G2 record (128 bytes) as points
DecodeG1(rec) ==
  G1AffineNew(FqNew(BigInteger256Read(SubSeq(rec, 1, 32))),
              FqNew(BigInteger256Read(SubSeq(rec, 33, 64))), FALSE)

DecodeG2(rec) ==
  G2AffineNew(Fq2New(FqNew(BigInteger256Read(SubSeq(rec, 1, 32))),
                     FqNew(BigInteger256Read(SubSeq(rec, 33, 64)))),
              Fq2New(FqNew(BigInteger256Read(SubSeq(rec, 65, 96))),
                     FqNew(BigInteger256Read(SubSeq(rec, 97, 128)))), FALSE)

\* ------------------------------------------------------------------------
\* usize arithmetic of the point-count bounds (64-bit words)
\* ------------------------------------------------------------------------

AllOnes64 == [k \in 1..8 |-> 255]
I32MaxWord == <<255, 255, 255, 127>>

\* 2^e for e in 0..7
Pow2(e) == IF e = 0 THEN 1 ELSE IF e = 1 THEN 2 ELSE IF e = 2 THEN 4
           ELSE IF e = 3 THEN 8 ELSE IF e = 4 THEN 16 ELSE IF e = 5 THEN 32
           ELSE IF e = 6 THEN 64 ELSE 128

\* the usize with only bit k set, k in 0..63
BitWord(k) == [j \in 1..8 |-> IF j = (k \div 8) + 1 THEN Pow2(k % 8) ELSE 0]

\* a u32 word that is 64 or more
ShiftTooLarge(pw) == pw[1] >= 64 \/ pw[2] # 0 \/ pw[3] # 0 \/ pw[4] # 0

\* 1 << power: the shift amount is taken modulo 64 when overflow checks are
\* off; with overflow checks the shift panics for power >= 64
ShlOne(pw) == BitWord(pw[1] % 64)

\* max_g2_points = 1 << power; max_g1_points = max_g2_points * 2 - 1
\* (overflow: TRUE when one of the three operations overflows usize)
MaxPoints(pw) ==
  LET g2 == ShlOne(pw)
      dbl == AddWord(g2, g2)
      g1 == AddWord(dbl, AllOnes64)
  IN  [max_g2_points |-> g2,
       max_g1_points |-> g1,
       overflow |-> ShiftTooLarge(pw) \/ IsNeg(g2) \/ dbl = Zeros(8)]

\* ------------------------------------------------------------------------
\* Heap allocation of the buffers (vec!, Vec::with_capacity)
\* ------------------------------------------------------------------------

\* size_of::<G1Affine>() and size_of::<G2Affine>(): the coordinates and the
\* infinity flag, padded to 8 bytes
G1AffineSize == 72
G2AffineSize == 136

\* the bytes of a buffer of n elements of the given size, as a usize
\* (n is below 2^31 here, so that the product does not pass isize::MAX, the
\* case in which with_capacity panics with a capacity overflow)
AllocBytes(n, size) == MulSmall(U64(n), size)

\* the allocator returns no memory for a request above what the machine
\* gives to one allocation; the process then aborts (handle_alloc_error)
AllocFails(bytes, mem) == GtWord(bytes, mem)

\* ------------------------------------------------------------------------
\* State
\* ------------------------------------------------------------------------

VARIABLES
  file,             \* the content of the file at ptau_file
  num_g1_points,    \* argument
  num_g2_points,    \* argument
  overflow_checks,  \* build: integer overflow panics (debug) or wraps
  maxsize,          \* environment: largest offset the file system seeks to
  memory,           \* environment: largest allocation the machine grants
  pc,               \* position in read
  pos,              \* stream position of f
  sec_i,            \* directory entries walked so far
  sections,         \* the BTreeMap: identifier word -> offset word
  q_buf,            \* the modulus buffer: len bytes, of which head are the
                    \* bytes read from the file and the others are zero
  power,            \* the power word read from section 1
  max_g1_points,
  max_g2_points,
  g1_points,
  g2_points,
  dropped,          \* sites whose failed io::Result was discarded by let _ =
  result            \* the outcome of the call

vars == <<file, num_g1_points, num_g2_points, overflow_checks, maxsize,
          memory, pc, pos, sec_i, sections, q_buf, power, max_g1_points,
          max_g2_points, g1_points, g2_points, dropped, result>>

input == <<file, num_g1_points, num_g2_points, overflow_checks, maxsize,
           memory>>

Error == {"InvalidMagicString", "InvalidVersion", "InvalidPrimeOrder",
          "InvalidNumSections", "InvalidNumG1Points", "InvalidNumG2Points",
          "InvalidG1Point", "InvalidG2Point"}

NoResult == [kind |-> "none", error |-> "", g1 |-> <<>>, g2 |-> <<>>]
Err(e) == [kind |-> "Err", error |-> e, g1 |-> <<>>, g2 |-> <<>>]
Ok(g1, g2) == [kind |-> "Ok", error |-> "", g1 |-> g1, g2 |-> g2]
\* a panic unwinds out of read; error names the panicking operation and line
Panic(at) == [kind |-> "Panic", error |-> at, g1 |-> <<>>, g2 |-> <<>>]
\* a failed allocation aborts the process; error names the allocation's line
Abort(at) == [kind |-> "Abort", error |-> at, g1 |-> <<>>, g2 |-> <<>>]

Return(r) == /\ result' = r
             /\ pc' = "done"

Drop(site, ok) == dropped' = IF ok THEN dropped ELSE dropped \cup {site}

\* BTreeMap::insert
Insert(m, k, v) == [x \in DOMAIN m \cup {k} |-> IF x = k THEN v ELSE m[x]]

\* ReadBytesExt::read_u32 / read_i64: read_exact of the word
ReadWord(f, p, n) == ReadExact(f, p, n)

NumSections == 11

\* ------------------------------------------------------------------------
\* read, stage by stage
\* ------------------------------------------------------------------------

\* lines 30-34: the magic string
ReadMagic ==
  /\ pc = "magic"
  /\ LET r == ReadExact(file, pos, 4)
     IN  /\ pos' = r.pos
         /\ Drop("magic", r.ok)
         /\ IF ~Utf8Valid(r.buf) THEN Return(Panic("unwrap:32"))
            ELSE IF r.buf # MagicString
              THEN Return(Err("InvalidMagicString"))
            ELSE pc' = "version" /\ result' = result
  /\ UNCHANGED <<input, sec_i, sections, q_buf, power, max_g1_points,
                 max_g2_points, g1_points, g2_points>>

\* lines 37-40: the version
ReadVersion ==
  /\ pc = "version"
  /\ LET r == ReadWord(file, pos, 4)
     IN  /\ pos' = r.pos
         /\ IF ~r.ok THEN Return(Panic("unwrap:37"))
            ELSE IF r.buf # U32(1) THEN Return(Err("InvalidVersion"))
            ELSE pc' = "num_sections" /\ result' = result
  /\ UNCHANGED <<input, sec_i, sections, q_buf, power, max_g1_points,
                 max_g2_points, g1_points, g2_points, dropped>>

\* lines 43-46: the number of sections
ReadNumSections ==
  /\ pc = "num_sections"
  /\ LET r == ReadWord(file, pos, 4)
     IN  /\ pos' = r.pos
         /\ IF ~r.ok THEN Return(Panic("unwrap:43"))
            ELSE IF r.buf # U32(NumSections)
              THEN Return(Err("InvalidNumSections"))
            ELSE pc' = "directory" /\ result' = result
  /\ UNCHANGED <<input, sec_i, sections, q_buf, power, max_g1_points,
                 max_g2_points, g1_points, g2_points, dropped>>

\* lines 52-56, one iteration: the entry header at p, the payload offset and
\* the position after skipping the payload
SectionEntry(f, p, maxsz) ==
  LET rn == ReadWord(f, p, 4)
      rs == ReadWord(f, rn.pos, 8)
      sk == SeekCurrent(rs.pos, rs.buf, maxsz)
  IN  [num |-> rn.buf, size |-> rs.buf, offset |-> rs.pos,
       num_ok |-> rn.ok, size_ok |-> rs.ok,
       next |-> sk.pos, seek_ok |-> sk.ok, eof |-> rs.pos]

ReadSectionEntry ==
  /\ pc = "directory"
  /\ sec_i < NumSections
  /\ LET e == SectionEntry(file, pos, maxsize)
     IN  IF ~e.num_ok \/ ~e.size_ok
         THEN /\ pos' = e.eof
              /\ Return(Panic(IF e.num_ok THEN "unwrap:53" ELSE "unwrap:52"))
              /\ UNCHANGED <<sec_i, sections, dropped>>
         ELSE /\ pos' = e.next
              /\ Drop("skip", e.seek_ok)
              /\ sections' = Insert(sections, e.num, e.offset)
              /\ sec_i' = sec_i + 1
              /\ pc' = IF sec_i + 1 = NumSections THEN "header"
                       ELSE "directory"
              /\ result' = result
  /\ UNCHANGED <<input, q_buf, power, max_g1_points, max_g2_points,
                 g1_points, g2_points>>

\* lines 66-71: the zero bytes of a buffer
NumZeroes(buf) == Cardinality({k \in 1..Len(buf) : buf[k] = 0})


\* Vec<u8> of len bytes: the bytes head followed by zero bytes
QBuf(len, head) == [len |-> len, head |-> head]

\* lines 60-63: section 1 up to the modulus buffer: the seek, n8, and the
\* read of n8 bytes into the zeroed buffer (short when the file ends first)
HeaderRead(f, p, secs, maxsz) ==
  LET sk == SeekStart(p, secs[U32(1)], maxsz)
      rn == ReadWord(f, sk.pos, 4)
      left == Avail(f, rn.pos, Len(f))
      short == ~Fits(rn.buf) \/ NatOfWord(rn.buf) > left
      rq == ReadExact(f, rn.pos, IF short THEN left ELSE NatOfWord(rn.buf))
  IN  [seek_ok |-> sk.ok, n8 |-> rn.buf, n8_ok |-> rn.ok,
       n8_pos |-> rn.pos,
       q_buf |-> QBuf(rn.buf, rq.buf), buf_ok |-> ~short,
       pos |-> IF rn.ok THEN rq.pos ELSE rn.pos]

\* lines 66-71: num_zeroes == 32 (a buffer of 2^24 bytes or more that passed
\* the end of the file holds more than 32 zero bytes)
NumZeroesIs32(qb) ==
  /\ Fits(qb.len)
  /\ NumZeroes(qb.head) + (NatOfWord(qb.len) - Len(qb.head)) = 32

\* lines 72-82: the verdict on the modulus buffer.  The zero bytes after head
\* are the most significant ones and leave the element unchanged, so the
\* element is computed from head.
PrimeOrderRejected(qb) ==
  \/ NumZeroesIs32(qb)
  \/ from_le_bytes_mod_order(qb.head) # FqFrom(0)

\* the i32 counter num_zeroes passes 2^31 - 1
NumZeroesOverflows(qb) ==
  LET nonzero == Len(qb.head) - NumZeroes(qb.head)
  IN  GtWord(qb.len, AddWord(I32MaxWord, U32(nonzero)))

ReadHeader ==
  /\ pc = "header"
  /\ IF U32(1) \notin DOMAIN sections
     THEN /\ Return(Panic("index:60"))
          /\ UNCHANGED <<pos, dropped, q_buf>>
     ELSE LET h == HeaderRead(file, pos, sections, maxsize)
          IN  IF ~h.n8_ok
              THEN /\ pos' = h.pos
                   /\ Drop("seek1", h.seek_ok)
                   /\ Return(Panic("unwrap:61"))
                   /\ UNCHANGED q_buf
              ELSE IF AllocFails(h.n8 \o Zeros(4), memory)
              THEN /\ pos' = h.n8_pos
                   /\ Drop("seek1", h.seek_ok)
                   /\ Return(Abort("alloc:62"))
                   /\ UNCHANGED q_buf
              ELSE /\ pos' = h.pos
                   /\ dropped' = dropped
                        \cup (IF h.seek_ok THEN {} ELSE {"seek1"})
                        \cup (IF h.buf_ok THEN {} ELSE {"q_buf"})
                   /\ q_buf' = h.q_buf
                   /\ IF overflow_checks /\ NumZeroesOverflows(h.q_buf)
                        THEN Return(Panic("overflow:69"))
                      ELSE IF PrimeOrderRejected(h.q_buf)
                        THEN Return(Err("InvalidPrimeOrder"))
                      ELSE pc' = "power" /\ result' = result
  /\ UNCHANGED <<input, sec_i, sections, power, max_g1_points,
                 max_g2_points, g1_points, g2_points>>

\* lines 92-97: the verdict on the requested counts
CountCheck(n1, n2, m) ==
  IF GtWord(U64(n1), m.max_g1_points) THEN "InvalidNumG1Points"
  ELSE IF GtWord(U64(n2), m.max_g2_points) THEN "InvalidNumG2Points"
  ELSE "ok"

\* lines 85-97: power, ceremony power and the count checks
ReadPower ==
  /\ pc = "power"
  /\ LET rp == ReadWord(file, pos, 4)
         rc == ReadWord(file, rp.pos, 4)
         m == MaxPoints(rp.buf)
         c == CountCheck(num_g1_points, num_g2_points, m)
     IN  /\ pos' = rc.pos
         /\ IF ~rp.ok \/ ~rc.ok
            THEN /\ Return(Panic(IF rp.ok THEN "unwrap:88" ELSE "unwrap:85"))
                 /\ power' = IF rp.ok THEN rp.buf ELSE power
                 /\ UNCHANGED <<max_g1_points, max_g2_points>>
            ELSE /\ power' = rp.buf
                 /\ IF overflow_checks /\ m.overflow
                    THEN /\ Return(Panic(IF ShiftTooLarge(rp.buf)
                                         THEN "overflow:90"
                                         ELSE "overflow:91"))
                         /\ UNCHANGED <<max_g1_points, max_g2_points>>
                    ELSE /\ max_g1_points' = m.max_g1_points
                         /\ max_g2_points' = m.max_g2_points
                         /\ IF c # "ok" THEN Return(Err(c))
                            ELSE pc' = "g1_seek" /\ result' = result
  /\ UNCHANGED <<input, sec_i, sections, q_buf, g1_points, g2_points,
                 dropped>>

\* line 114 / line 144: a decoded point is kept
AcceptG1(g1) == G1IsOnCurve(g1)
AcceptG2(g2) == G2IsOnCurve(g2)

\* the two coordinate buffers are read but the stream is left at the start
\* of the record
ReadG1RecordStuck(f, p) ==
  LET rx == ReadExact(f, p, 32)
      ry == ReadExact(f, rx.pos, 32)
  IN  [buf |-> rx.buf \o ry.buf, pos |-> p, ok |-> rx.ok /\ ry.ok]

\* lines 104-107: the two coordinate buffers of one G1 record
ReadG1Record(f, p) ==
  LET rx == ReadExact(f, p, 32)
      ry == ReadExact(f, rx.pos, 32)
  IN  [buf |-> rx.buf \o ry.buf, pos |-> ry.pos, ok |-> rx.ok /\ ry.ok]

\* lines 125-132: the four coordinate buffers of one G2 record
ReadG2Record(f, p) ==
  LET rx0 == ReadExact(f, p, 32)
      rx1 == ReadExact(f, rx0.pos, 32)
      ry0 == ReadExact(f, rx1.pos, 32)
      ry1 == ReadExact(f, ry0.pos, 32)
  IN  [buf |-> rx0.buf \o rx1.buf \o ry0.buf \o ry1.buf, pos |-> ry1.pos,
       ok |-> rx0.ok /\ rx1.ok /\ ry0.ok /\ ry1.ok]

\* lines 101-102: the vector of G1 points and the seek to section 2
SeekG1 ==
  /\ pc = "g1_seek"
  /\ IF AllocFails(AllocBytes(num_g1_points, G1AffineSize), memory)
     THEN /\ Return(Abort("alloc:101"))
          /\ UNCHANGED <<pos, dropped>>
     ELSE IF U32(2) \notin DOMAIN sections
     THEN /\ Return(Panic("index:102"))
          /\ UNCHANGED <<pos, dropped>>
     ELSE LET sk == SeekStart(pos, sections[U32(2)], maxsize)
          IN  /\ pos' = sk.pos
              /\ Drop("seek2", sk.ok)
              /\ pc' = "g1"
              /\ result' = result
  /\ UNCHANGED <<input, sec_i, sections, q_buf, power, max_g1_points,
                 max_g2_points, g1_points, g2_points>>

\* lines 103-118, one iteration
ReadG1Point ==
  /\ pc = "g1"
  /\ Len(g1_points) < num_g1_points
  /\ LET r == ReadG1Record(file, pos)
         g1 == DecodeG1(r.buf)
     IN  /\ pos' = r.pos
         /\ Drop("g1", r.ok)
         /\ IF ~AcceptG1(g1)
            THEN /\ Return(Err("InvalidG1Point"))
                 /\ UNCHANGED g1_points
            ELSE /\ g1_points' = Append(g1_points, g1)
                 /\ UNCHANGED <<pc, result>>
  /\ UNCHANGED <<input, sec_i, sections, q_buf, power, max_g1_points,
                 max_g2_points, g2_points>>

\* lines 121-123: the seek to section 3 and the vector of G2 points
SeekG2 ==
  /\ pc = "g1"
  /\ Len(g1_points) = num_g1_points
  /\ IF U32(3) \notin DOMAIN sections
     THEN /\ Return(Panic("index:121"))
          /\ UNCHANGED <<pos, dropped>>
     ELSE LET sk == SeekStart(pos, sections[U32(3)], maxsize)
          IN  /\ pos' = sk.pos
              /\ Drop("seek3", sk.ok)
              /\ IF AllocFails(AllocBytes(num_g2_points, G2AffineSize),
                               memory)
                 THEN Return(Abort("alloc:123"))
                 ELSE pc' = "g2" /\ result' = result
  /\ UNCHANGED <<input, sec_i, sections, q_buf, power, max_g1_points,
                 max_g2_points, g1_points, g2_points>>

\* lines 124-148, one iteration
ReadG2Point ==
  /\ pc = "g2"
  /\ Len(g2_points) < num_g2_points
  /\ LET r == ReadG2Record(file, pos)
         g2 == DecodeG2(r.buf)
     IN  /\ pos' = r.pos
         /\ Drop("g2", r.ok)
         /\ IF ~AcceptG2(g2)
            THEN /\ Return(Err("InvalidG2Point"))
                 /\ UNCHANGED g2_points
            ELSE /\ g2_points' = Append(g2_points, g2)
                 /\ UNCHANGED <<pc, result>>
  /\ UNCHANGED <<input, sec_i, sections, q_buf, power, max_g1_points,
                 max_g2_points, g1_points>>

\* line 149
ReturnOk ==
  /\ pc = "g2"
  /\ Len(g2_points) = num_g2_points
  /\ Return(Ok(g1_points, g2_points))
  /\ UNCHANGED <<input, pos, sec_i, sections, q_buf, power, max_g1_points,
                 max_g2_points, g1_points, g2_points, dropped>>

\* ------------------------------------------------------------------------
\* Input files
\* ------------------------------------------------------------------------

RECURSIVE Concat(_)
Concat(ss) == IF ss = <<>> THEN <<>> ELSE Head(ss) \o Concat(Tail(ss))

\* a field element given by the 32 little-endian bytes of its value, as the
\* 32 bytes of its internal form (FromBytes for Fq: Fq::read)
FqBytes(v) == FqFromRepr(v)

G1Record(pt) == FqBytes(pt[1]) \o FqBytes(pt[2])
G2Record(pt) == FqBytes(pt[1]) \o FqBytes(pt[2]) \o FqBytes(pt[3])
                \o FqBytes(pt[4])

\* points on G1: the generator (1, 2), the second point of tests::test_read,
\* and the double and the triple of the generator; one point off the curve
G1OnCurve == <<
  <<WordOfNat(1, 32), WordOfNat(2, 32)>>,
  <<
    <<207, 81, 182, 90, 213, 68, 121, 227, 148, 174, 249, 13, 75, 14, 196,
      228, 161, 161, 107, 187, 104, 101, 97, 74, 75, 91, 138, 9, 89, 253,
      211, 45>>,
    <<240, 78, 179, 246, 239, 96, 27, 227, 211, 38, 194, 55, 254, 237, 51,
      81, 222, 150, 156, 230, 214, 52, 144, 90, 67, 4, 186, 37, 53, 12,
      104, 37>> >>,
  <<
    <<211, 207, 135, 109, 193, 8, 194, 211, 168, 28, 135, 22, 169, 22, 120,
      217, 133, 21, 24, 104, 91, 4, 133, 155, 2, 26, 19, 46, 231, 68, 6, 3>>,
    <<196, 162, 24, 90, 122, 191, 62, 255, 199, 143, 83, 227, 73, 164, 166,
      104, 10, 156, 174, 178, 150, 95, 132, 231, 146, 124, 10, 14, 140,
      115, 237, 21>> >>,
  <<
    <<240, 171, 21, 25, 150, 85, 211, 242, 121, 230, 184, 21, 71, 216, 21,
      147, 21, 189, 182, 177, 188, 50, 2, 244, 63, 234, 107, 197, 154, 191,
      105, 7>>,
    <<97, 34, 254, 217, 61, 255, 241, 205, 87, 91, 156, 11, 180, 99, 158,
      49, 117, 100, 8, 141, 124, 219, 79, 85, 41, 148, 72, 224, 190, 153,
      183, 42>> >> >>
G1OffCurve == <<WordOfNat(1, 32), WordOfNat(3, 32)>>

\* points on G2: the point P of tests::test_read, 2P, 3P and 4P; one point
\* off the curve
G2OnCurve == <<
  <<
    <<237, 246, 146, 217, 92, 189, 222, 70, 221, 218, 94, 247, 212, 34, 67,
      103, 121, 68, 92, 94, 102, 0, 106, 66, 118, 30, 31, 18, 239, 222, 0,
      24>>,
    <<194, 18, 243, 174, 183, 133, 228, 151, 18, 231, 169, 53, 51, 73, 170,
      241, 37, 93, 251, 49, 183, 191, 96, 114, 58, 72, 13, 146, 147, 147,
      142, 25>>,
    <<170, 125, 250, 102, 1, 204, 230, 76, 123, 211, 67, 12, 105, 231, 209,
      227, 143, 64, 203, 141, 128, 113, 171, 74, 235, 109, 140, 219, 165,
      94, 200, 18>>,
    <<91, 151, 34, 209, 220, 218, 172, 85, 243, 142, 179, 112, 51, 49, 75,
      188, 149, 51, 12, 105, 173, 153, 158, 236, 117, 240, 95, 88, 208,
      137, 6, 9>> >>,
  <<
    <<185, 179, 180, 98, 9, 19, 248, 73, 238, 42, 166, 169, 207, 211, 92,
      157, 20, 111, 62, 124, 39, 89, 108, 195, 232, 211, 17, 253, 52, 114,
      220, 39>>,
    <<121, 173, 40, 57, 140, 237, 87, 153, 132, 53, 216, 198, 49, 100, 184,
      109, 112, 51, 115, 58, 184, 33, 1, 182, 55, 155, 241, 180, 93, 32,
      62, 32>>,
    <<46, 93, 43, 18, 173, 109, 42, 110, 70, 192, 177, 230, 79, 155, 165,
      68, 9, 131, 196, 66, 39, 55, 188, 160, 146, 95, 126, 151, 184, 83,
      187, 4>>,
    <<82, 225, 157, 80, 240, 133, 225, 152, 212, 72, 223, 78, 107, 86, 5,
      53, 157, 87, 49, 57, 21, 140, 43, 114, 99, 116, 130, 183, 165, 138,
      94, 25>> >>,
  <<
    <<245, 199, 251, 148, 6, 250, 222, 18, 0, 94, 154, 176, 140, 71, 126,
      141, 94, 113, 146, 225, 38, 40, 229, 81, 144, 14, 177, 77, 120, 78,
      6, 6>>,
    <<133, 110, 182, 255, 50, 79, 130, 201, 167, 160, 120, 104, 107, 21, 4,
      188, 235, 228, 207, 93, 205, 145, 81, 115, 66, 151, 187, 87, 47, 119,
      20, 16>>,
    <<151, 85, 108, 102, 87, 109, 3, 101, 151, 231, 33, 69, 215, 32, 185,
      105, 160, 104, 44, 141, 156, 15, 75, 7, 224, 185, 181, 129, 86, 29,
      142, 5>>,
    <<178, 17, 119, 20, 202, 234, 42, 69, 65, 84, 181, 73, 172, 83, 148,
      221, 35, 51, 141, 243, 194, 252, 47, 146, 183, 75, 53, 243, 53, 35,
      30, 2>> >>,
  <<
    <<44, 226, 54, 180, 221, 180, 9, 119, 253, 69, 76, 8, 229, 112, 21, 19,
      66, 196, 204, 80, 168, 99, 128, 195, 71, 47, 106, 111, 248, 219, 221,
      41>>,
    <<111, 35, 113, 149, 194, 133, 109, 90, 63, 140, 161, 144, 246, 102,
      111, 32, 132, 215, 118, 249, 147, 90, 72, 162, 213, 122, 86, 158, 71,
      104, 6, 41>>,
    <<247, 55, 188, 40, 103, 84, 162, 220, 90, 110, 39, 20, 189, 65, 208,
      5, 59, 200, 67, 36, 195, 60, 124, 202, 147, 58, 43, 247, 247, 10,
      159, 41>>,
    <<246, 168, 97, 230, 190, 245, 255, 142, 75, 65, 201, 112, 182, 211,
      212, 2, 4, 176, 19, 36, 27, 67, 22, 91, 122, 38, 156, 81, 191, 164,
      116, 30>> >> >>
G2OffCurve == <<G2OnCurve[1][1], G2OnCurve[1][2], G2OnCurve[2][3],
                G2OnCurve[2][4]>>

\* the records of these points
G1Records == AsSeq([k \in 1..4 |-> G1Record(G1OnCurve[k])])
G1BadRecord == G1Record(G1OffCurve)
G2Records == AsSeq([k \in 1..4 |-> G2Record(G2OnCurve[k])])
G2BadRecord == G2Record(G2OffCurve)

\* n records, all on the curve except the one at index bad (0: none)
G1List(bad, n) ==
  [k \in 1..n |-> IF k = bad THEN G1BadRecord
                  ELSE G1Records[((k - 1) % 4) + 1]]
G2List(bad, n) ==
  [k \in 1..n |-> IF k = bad THEN G2BadRecord
                  ELSE G2Records[((k - 1) % 4) + 1]]

\* the modulus as the file declares it
ModulusBytes == Modulus

\* the payload of section 1
Sec1(n8w, modbuf, pw) == n8w \o modbuf \o pw \o pw

GoodSec1(p) == Sec1(U32(32), ModulusBytes, U32(p))

\* the directory entries of a file whose sections come in the given order
Entries(order, s1, g1s, g2s) ==
  [k \in 1..Len(order) |->
     LET pl == IF order[k] = 1 THEN s1
               ELSE IF order[k] = 2 THEN Concat(g1s)
               ELSE IF order[k] = 3 THEN Concat(g2s)
               ELSE IF order[k] = 4 THEN <<170, 187, 204>>
               ELSE <<>>
     IN  [num |-> U32(order[k]), size |-> U64(Len(pl)), payload |-> pl]]

FileOf(magic, versionw, nsecw, es) ==
  magic \o versionw \o nsecw
  \o Concat([k \in 1..Len(es) |-> es[k].num \o es[k].size \o es[k].payload])

GoodFile(es) == FileOf(MagicString, U32(1), U32(NumSections), es)

StdOrder == <<1, 2, 3, 4, 5, 6, 7, 8, 9, 10, 11>>
G1Last == <<4, 5, 6, 7, 8, 9, 10, 11, 1, 3, 2>>
G2Last == <<4, 5, 6, 7, 8, 9, 10, 11, 1, 2, 3>>

StdEntries(p) ==
  Entries(StdOrder, GoodSec1(p), G1List(0, MaxReq), G2List(0, MaxReq))

\* two's complement of n
NegWord(n) == AddWord([k \in 1..8 |-> 255 - U64(n)[k]], U64(1))

\* largest file offsets: tmpfs (2^63 - 1) and ext4 (2^44 - 4096)
TmpfsMax == I64Max
Ext4Max == <<0, 240, 255, 255, 255, 15, 0, 0>>

\* largest allocations: machines of 1 GiB, 16 GiB and 256 GiB
Mem1G == <<0, 0, 0, 64, 0, 0, 0, 0>>
Mem16G == <<0, 0, 0, 0, 4, 0, 0, 0>>
Mem256G == <<0, 0, 0, 0, 64, 0, 0, 0>>

Input(f, n1, n2, oc, ms) ==
  [file |-> f, n1 |-> n1, n2 |-> n2, oc |-> oc, ms |-> ms, mem |-> Mem16G]

\* files with records, the record at one index off the curve
PointInputs ==
  { Input(GoodFile(Entries(StdOrder, GoodSec1(2), G1List(b1, MaxReq),
                           G2List(b2, MaxReq))), n1, n2, FALSE, TmpfsMax) :
      b1 \in 0..MaxReq, b2 \in 0..MaxReq, n1 \in 0..MaxReq,
      n2 \in 0..MaxReq }

\* declared powers against requested counts
Powers == {<<0, 0, 0, 0>>, <<1, 0, 0, 0>>, <<8, 0, 0, 0>>, <<62, 0, 0, 0>>,
           <<63, 0, 0, 0>>, <<64, 0, 0, 0>>, <<65, 0, 0, 0>>,
           <<0, 1, 0, 0>>, <<1, 0, 0, 128>>}
Requests == {<<0, 0>>, <<1, 1>>, <<2, 1>>, <<1, 2>>, <<3, 2>>, <<4, 2>>,
             <<3, 3>>, <<4, 3>>, <<511, 256>>, <<512, 256>>, <<511, 257>>,
             <<512, 257>>}
CountInputs ==
  { Input(GoodFile(Entries(StdOrder, Sec1(U32(32), ModulusBytes, pw),
                           G1List(0, MaxReq), G2List(0, MaxReq))),
          rq[1], rq[2], oc, TmpfsMax) :
      pw \in Powers, rq \in Requests, oc \in BOOLEAN }

\* magic, version and section count
Magics == {MagicString, <<112, 116, 97, 85>>, <<255, 255, 255, 255>>,
           <<112, 116, 97, 200>>, <<0, 0, 0, 0>>, <<226, 130, 172, 117>>}
HeaderInputs ==
  { Input(FileOf(m, U32(v), U32(n), StdEntries(1)), rq, rq, FALSE,
          TmpfsMax) :
      m \in Magics, v \in {1, 2}, n \in {NumSections, NumSections - 1},
      rq \in {1, 4} }

\* files cut short
Cuts(f) == {l \in 0..(Len(f) - 1) :
              l < 16 \/ l % 12 = 0 \/ l > Len(f) - 70}
TruncInputs ==
  { Input(SubSeq(ft[1], 1, ft[2]), MaxReq, MaxReq, FALSE, TmpfsMax) :
      ft \in UNION { {<<f, l>> : l \in Cuts(f)} :
         f \in { GoodFile(Entries(o, GoodSec1(2), G1List(0, MaxReq),
                                  G2List(0, MaxReq))) :
                 o \in {StdOrder, G1Last, G2Last} } } }

\* directory entries with other lengths and identifiers
Sizes == {NegWord(12), NegWord(1000), I64Max, <<0, 0, 0, 0, 0, 1, 0, 0>>,
          <<0, 0, 0, 0, 0, 0, 4, 0>>, U64(12), NegWord(1)}
DirInputs ==
  { Input(GoodFile([StdEntries(1) EXCEPT ![k].size = w]), 1, 1, FALSE, ms) :
      k \in {1, 4, NumSections}, w \in Sizes, ms \in {TmpfsMax, Ext4Max} }
  \cup
  { Input(GoodFile([StdEntries(1) EXCEPT ![k].num = w]), 1, 1, FALSE,
          TmpfsMax) :
      k \in {1, 2, 3, 4, NumSections},
      w \in {U32(1), U32(2), U32(3), U32(12), <<0, 0, 0, 128>>} }

\* section 1 with other widths and modulus buffers
ModBuffers ==
  { <<32, ModulusBytes>>, <<32, Zeros(32)>>, <<0, <<>> >>, <<33, Zeros(33)>>,
    <<64, Zeros(64)>>, <<32, AddNoCarry(Modulus, Modulus)>>,
    <<33, ModulusBytes \o <<0>> >>,
    <<64, ModulusBytes \o Zeros(32)>>,
    <<32, AddNoCarry(Modulus, WordOfNat(1, 32))>>,
    <<1, <<ModulusBytes[1]>> >>, <<1, <<0>> >>,
    <<31, SubSeq(ModulusBytes, 1, 31)>>,
    <<40, ModulusBytes>>, <<64, ModulusBytes \o ModulusBytes>> }
ModInputs ==
  { Input(GoodFile(Entries(o, Sec1(U32(mb[1]), mb[2], U32(1)),
                           G1List(0, MaxReq), G2List(0, MaxReq))),
          1, 1, FALSE, TmpfsMax) :
      mb \in ModBuffers, o \in {StdOrder} }
  \cup
  { [Input(GoodFile(Entries(StdOrder, Sec1(w, ModulusBytes, U32(1)),
                            G1List(0, MaxReq), G2List(0, MaxReq))),
           1, 1, oc, TmpfsMax) EXCEPT !.mem = m] :
      w \in {<<0, 0, 0, 1>>, <<0, 0, 0, 128>>, <<0, 0, 0, 192>>},
      oc \in BOOLEAN,
      m \in {Mem1G, Mem16G} }

\* requests for more points than the machine has memory for, on a file of
\* power 40
MaxCount == 2147483647
AllocInputs ==
  { [Input(GoodFile(Entries(StdOrder, GoodSec1(40), G1List(0, MaxReq),
                            G2List(0, MaxReq))),
           rq[1], rq[2], FALSE, TmpfsMax) EXCEPT !.mem = m] :
      rq \in {<<MaxCount, 0>>, <<0, MaxCount>>, <<2, MaxCount>>, <<2, 2>>},
      m \in {Mem16G, Mem256G} }

Inputs == PointInputs \cup CountInputs \cup HeaderInputs \cup TruncInputs
          \cup DirInputs \cup ModInputs \cup AllocInputs

\* ------------------------------------------------------------------------
\* Specification
\* ------------------------------------------------------------------------

\* line 27: the file is open, the stream at its start
Init ==
  /\ \E inp \in Inputs :
       /\ file = inp.file
       /\ num_g1_points = inp.n1
       /\ num_g2_points = inp.n2
       /\ overflow_checks = inp.oc
       /\ maxsize = inp.ms
       /\ memory = inp.mem
  /\ pc = "magic"
  /\ pos = U64(0)
  /\ sec_i = 0
  /\ sections = <<>>
  /\ q_buf = QBuf(U32(0), <<>>)
  /\ power = U32(0)
  /\ max_g1_points = U64(0)
  /\ max_g2_points = U64(0)
  /\ g1_points = <<>>
  /\ g2_points = <<>>
  /\ dropped = {}
  /\ result = NoResult

Next ==
  \/ ReadMagic
  \/ ReadVersion
  \/ ReadNumSections
  \/ ReadSectionEntry
  \/ ReadHeader
  \/ ReadPower
  \/ SeekG1
  \/ ReadG1Point
  \/ SeekG2
  \/ ReadG2Point
  \/ ReturnOk

Spec == Init /\ [][Next]_vars

TypeOK ==
  /\ pc \in {"magic", "version", "num_sections", "directory", "header",
             "power", "g1_seek", "g1", "g2", "done"}
  /\ result.kind \in {"none", "Ok", "Err", "Panic", "Abort"}
  /\ result.kind = "Err" => result.error \in Error
  /\ (pc = "done") = (result.kind # "none")

\* ------------------------------------------------------------------------
\* Terms of the properties
\* ------------------------------------------------------------------------

Done == pc = "done"

\* the offset the directory holds for section k
Sec(k) == NatOfWord(sections[U32(k)])

\* the i-th record of the given size after offset off: the bytes the file
\* holds there; a byte past the end of the file counts as zero, which is
\* what the zero-initialised coordinate buffers keep after a short read
RecordAt(f, off, i, size) ==
  [k \in 1..size |->
     LET j == off + size * (i - 1) + k
     IN  IF j <= Len(f) THEN f[j] ELSE 0]

G1RecordOnCurve(i) == G1IsOnCurve(DecodeG1(RecordAt(file, Sec(2), i, 64)))
G2RecordOnCurve(j) == G2IsOnCurve(DecodeG2(RecordAt(file, Sec(3), j, 128)))

\* the call ended after both count checks had passed
PassedCounts ==
  Done /\ \/ result.kind = "Ok"
          \/ result.error \in {"InvalidG1Point", "InvalidG2Point",
                               "alloc:101", "index:102", "index:121",
                               "alloc:123"}

\* a power below 30, for which 2 * 2^power is a small integer
PowerSmall(pw) == pw[1] <= 29 /\ pw[2] = 0 /\ pw[3] = 0 /\ pw[4] = 0

\* n > 2^power and n > 2 * 2^power - 1 over the integers, for n <= 2^30
ExceedsMaxG2(n, pw) == PowerSmall(pw) /\ n > 2 ^ pw[1]
ExceedsMaxG1(n, pw) == PowerSmall(pw) /\ n > 2 * (2 ^ pw[1]) - 1

\* the word w is the integer 2^power
IsTwoToThePower(w, pw) ==
  /\ pw[1] <= 63 /\ pw[2] = 0 /\ pw[3] = 0 /\ pw[4] = 0
  /\ w = [j \in 1..8 |-> IF j = (pw[1] \div 8) + 1 THEN 2 ^ (pw[1] % 8)
                         ELSE 0]

\* the word w is the integer 2 * 2^power - 1: its low power + 1 bits are set
IsTwiceMinusOne(w, pw) ==
  /\ pw[1] <= 63 /\ pw[2] = 0 /\ pw[3] = 0 /\ pw[4] = 0
  /\ w = [j \in 1..8 |->
            IF 8 * j <= pw[1] + 1 THEN 255
            ELSE IF 8 * (j - 1) < pw[1] + 1
              THEN 2 ^ (pw[1] + 1 - 8 * (j - 1)) - 1
            ELSE 0]

\* the buffer holds the base-field modulus as a little-endian integer: its
\* first 32 bytes are the modulus, which has no zero byte, and the others
\* are zero
EncodesModulus(qb) ==
  /\ Len(qb.head) >= 32
  /\ SubSeq(qb.head, 1, 32) = Modulus
  /\ \A k \in 33..Len(qb.head) : qb.head[k] = 0

\* ------------------------------------------------------------------------
\* Properties
\* ------------------------------------------------------------------------

\* C1: for a file that passes the header and modulus checks and declares
\* power p, read returns InvalidNumG1Points exactly when n1 > 2^(p+1) - 1,
\* InvalidNumG2Points exactly when n1 <= 2^(p+1) - 1 and n2 > 2^p, and
\* otherwise goes on to decode points.
C1_CountChecksExact ==
  [][ (pc = "power" /\ pc' # pc
       /\ result'.error \notin {"unwrap:85", "unwrap:88"})
      =>
      LET over1 == ExceedsMaxG1(num_g1_points, power')
          over2 == ExceedsMaxG2(num_g2_points, power')
      IN  /\ (result' = Err("InvalidNumG1Points")) = over1
          /\ (result' = Err("InvalidNumG2Points")) = (~over1 /\ over2)
          /\ (pc' = "g1_seek") = (~over1 /\ ~over2) ]_vars

\* C2: whenever read returns Ok((g1, g2)), g1 has n1 elements and g2 has n2
\* elements, the i-th element of g1 is the point decoded from the i-th
\* 64-byte record after the offset recorded for section 2, and the i-th
\* element of g2 the point decoded from the i-th 128-byte record after the
\* offset recorded for section 3.
C2_OutputIsRecordsInOrder ==
  result.kind = "Ok" =>
    /\ Len(result.g1) = num_g1_points
    /\ Len(result.g2) = num_g2_points
    /\ \A i \in 1..num_g1_points :
         result.g1[i] = DecodeG1(RecordAt(file, Sec(2), i, 64))
    /\ \A j \in 1..num_g2_points :
         result.g2[j] = DecodeG2(RecordAt(file, Sec(3), j, 128))

\* C2 witness: a call returned several distinct G1 and G2 points, every
\* read having succeeded
C2_Witness ==
  /\ result.kind = "Ok"
  /\ dropped = {}
  /\ Len(result.g1) >= 2 /\ result.g1[1] # result.g1[2]
  /\ Len(result.g2) >= 2 /\ result.g2[1] # result.g2[2]

\* C3: read is all-or-nothing with respect to point validity: it returns Ok
\* only if each of the n1 requested G1 records and each of the n2 requested
\* G2 records is on its curve, and every returned point is on its curve; for
\* a call that passed the count checks, an off-curve requested G1 record
\* gives Err(InvalidG1Point), and valid G1 records with an off-curve
\* requested G2 record give Err(InvalidG2Point); an error carries no points.
C3_AllOrNothing ==
  /\ result.kind = "Ok" =>
       /\ \A i \in 1..num_g1_points : G1RecordOnCurve(i)
       /\ \A j \in 1..num_g2_points : G2RecordOnCurve(j)
       /\ \A i \in 1..Len(result.g1) : G1IsOnCurve(result.g1[i])
       /\ \A j \in 1..Len(result.g2) : G2IsOnCurve(result.g2[j])
  /\ (PassedCounts /\ U32(2) \in DOMAIN sections
      /\ \E i \in 1..num_g1_points : ~G1RecordOnCurve(i))
       => result = Err("InvalidG1Point")
  /\ (PassedCounts /\ U32(2) \in DOMAIN sections
      /\ U32(3) \in DOMAIN sections
      /\ (\A i \in 1..num_g1_points : G1RecordOnCurve(i))
      /\ \E j \in 1..num_g2_points : ~G2RecordOnCurve(j))
       => result = Err("InvalidG2Point")
  /\ result.kind = "Err" => result.g1 = <<>> /\ result.g2 = <<>>

\* C4: the field-parameter stage rejects the modulus buffer with
\* InvalidPrimeOrder exactly when the buffer, as a little-endian integer,
\* differs from the base-field modulus (an all-zero buffer included).
C4_ModulusAcceptedIffExpected ==
  [][ (pc = "header" /\ pc' # pc /\ U32(1) \in DOMAIN sections
       /\ result'.error \notin {"unwrap:61", "alloc:62"})
      =>
      ((result' = Err("InvalidPrimeOrder")) = ~EncodesModulus(q_buf')) ]_vars

\* C5: for every file content and every pair of requested counts, read ends
\* by returning Ok or one of the eight Error variants, never by aborting.
C5_EndsWithOkOrError ==
  Done => \/ result.kind = "Ok"
          \/ result.kind = "Err" /\ result.error \in Error

\* C6: a failed read or seek ends the call at that step with an error: no
\* later stage runs after it.
C6_FailedIoEndsCall ==
  [][ dropped' # dropped => (pc' = "done" /\ result'.kind = "Err") ]_vars

\* C7: a file whose first four bytes are not "ptau" makes read fail with
\* InvalidMagicString, whatever the four bytes are, before anything after
\* the magic is read.
C7_BadMagicIsInvalidMagicString ==
  (Done /\ Len(file) >= 4 /\ SubSeq(file, 1, 4) # MagicString)
    => /\ result = Err("InvalidMagicString")
       /\ pos = U64(4)
       /\ sections = <<>>

\* C8: the validations run in the order magic, version, section count, prime
\* order, G1 count, G2 count, G1 records, G2 records and the first violation
\* is the one returned; no point record is decoded before both count checks
\* passed and no G2 record before all requested G1 records were validated.
C8_FirstViolationWins ==
  /\ Done =>
       IF RecordAt(file, 0, 1, 4) # MagicString
         THEN result = Err("InvalidMagicString")
       ELSE IF Len(file) >= 8 /\ SubSeq(file, 5, 8) # U32(1)
         THEN result = Err("InvalidVersion")
       ELSE IF Len(file) >= 12 /\ SubSeq(file, 9, 12) # U32(NumSections)
         THEN result = Err("InvalidNumSections")
       ELSE /\ result = Err("InvalidNumG2Points")
                 => ~GtWord(U64(num_g1_points), max_g1_points)
            /\ result.error \in {"InvalidG1Point", "InvalidG2Point"}
                 => /\ ~GtWord(U64(num_g1_points), max_g1_points)
                    /\ ~GtWord(U64(num_g2_points), max_g2_points)
            /\ result = Err("InvalidG2Point")
                 => \A i \in 1..num_g1_points : G1RecordOnCurve(i)
  /\ pc \in {"g1", "g2"} =>
       /\ ~GtWord(U64(num_g1_points), max_g1_points)
       /\ ~GtWord(U64(num_g2_points), max_g2_points)
  /\ pc = "g2" => Len(g1_points) = num_g1_points
  /\ g2_points # <<>> => Len(g1_points) = num_g1_points

\* C9: for every power read from section 1 the bounds are the integers
\* max_g2_points = 2^power and max_g1_points = 2 * 2^power - 1, and computing
\* them never overflows, wraps or aborts.
C9_BoundsAreMathematical ==
  [][ (pc = "power" /\ pc' # pc
       /\ result'.error \notin {"unwrap:85", "unwrap:88"})
      =>
      /\ result'.kind # "Panic"
      /\ IsTwoToThePower(max_g2_points', power')
      /\ IsTwiceMinusOne(max_g1_points', power') ]_vars

\* the directory as the file lays it out: the first entry's header starts at
\* byte 12, an entry's payload offset is 12 bytes after its header, and the
\* next header starts `length` (signed) bytes after that offset; ok is FALSE
\* when a header would not lie inside the file
RECURSIVE Walk(_, _, _, _)
Walk(f, h, k, m) ==
  IF k = NumSections THEN [ok |-> TRUE, dir |-> m]
  ELSE IF h + 12 > Len(f) THEN [ok |-> FALSE, dir |-> m]
  ELSE LET num == SubSeq(f, h + 1, h + 4)
           nxt == AddWord(U64(h + 12), SubSeq(f, h + 5, h + 12))
           m2 == [x \in DOMAIN m \cup {num} |->
                    IF x = num THEN U64(h + 12) ELSE m[x]]
       IN  IF k + 1 = NumSections THEN [ok |-> TRUE, dir |-> m2]
           ELSE IF IsNeg(nxt) \/ ~Fits(nxt) THEN [ok |-> FALSE, dir |-> m2]
           ELSE Walk(f, NatOfWord(nxt), k + 1, m2)

\* C10: after the 11 directory entries are walked, the directory maps every
\* identifier that occurs to the position right after the 12-byte header of
\* the last entry carrying it, each header starting `length` bytes after the
\* previous entry's payload offset, for every signed 64-bit length; the
\* directory is not modified afterwards.
C10_DirectoryFollowsLengths ==
  /\ [](sec_i = NumSections =>
          LET w == Walk(file, 12, 0, <<>>)
          IN  w.ok /\ sections = w.dir)
  /\ [][sec_i = NumSections => sections' = sections]_vars
====
